---- MODULE Spec2Model ----
(***************************************************************************)
(* A model of the TwixT rule engine of src/twixt.js: the Board class       *)
(* (peg occupancy, the two barrier arrays, placement and removal, the      *)
(* adjacency query and win detection).                                     *)
(*                                                                         *)
(* Numbers.  The code computes slopes and the intersection point of two    *)
(* lines with JavaScript doubles.  The model computes them with exact      *)
(* rationals (pairs <<numerator, denominator>>, denominator > 0).  Every   *)
(* stored or proposed barrier has dx, dy in {1,-1,2,-2}, so a slope is one *)
(* of 2, -2, 1/2, -1/2 and is exact as a double; IEEE division is          *)
(* correctly rounded and monotone, and the integers and half-integers the  *)
(* result is compared with are exact doubles, so every comparison the code *)
(* makes on the doubles has the outcome it has on the rationals.  In       *)
(* detail: the numerator of x is a multiple of 1/2 and m1 - m3 is one of   *)
(* 1, 3/2, 5/2, 3, 4 up to sign, so x is exact or has denominator 3 or 5;  *)
(* an x that is an integer is computed exactly, and one that is not is     *)
(* rounded inside the same open interval between two integers.  y is an    *)
(* integer only if x is, and is then exact; otherwise the rounded y stays  *)
(* inside the open interval between the integers around the exact y.       *)
(***************************************************************************)
EXTENDS Integers, Sequences, FiniteSets, TLC

VARIABLES
    pegState,           \* Board.pegState: Map from "x_y" keys to a Player value
    redBarrierState,    \* Board.redBarrierState: Array of [peg, peg]
    blackBarrierState,  \* Board.blackBarrierState: Array of [peg, peg]
    last,               \* the last Board call: [op, peg1, peg2, color]
    ret,                \* what the last Board call returned
    prev,               \* the two barrier arrays as they were before the last call
    query,              \* the last query made of the Board and the value it returned
    game,               \* the fields of the Game object and the buttons it sets
    event               \* the last event the page delivered to the Game

vars == <<pegState, redBarrierState, blackBarrierState, last, ret, prev, query, game, event>>

----------------------------------------------------------------------------
(* Player enum, src/twixt.js:6-10 *)
R == "R"
B == "B"
X == "X"
Player == {R, B, X}

\* what Map.get returns for a key the map does not hold
undefined == "undefined"

\* the board is GridSize x GridSize, coordinates 1..GridSize
GridSize == 24

(* class Peg *)
Peg(x, y) == [x |-> x, y |-> y]

asTuple(peg) == <<peg.x, peg.y>>

equals(p, q) == (p.x = q.x) /\ (p.y = q.y)

gt(p, q) == IF p.x = q.x THEN p.y > q.y ELSE p.x > q.x

lt_yFirst(p, q) == IF p.y = q.y THEN p.x < q.x ELSE p.y < q.y

lt(p, q) == IF p.x = q.x THEN p.y < q.y ELSE p.x < q.x

----------------------------------------------------------------------------
(* Strings.  The key format and its parsing are computed character by      *)
(* character: Len, \o and SubSeq apply to strings as to sequences.         *)
DigitChars == <<"0", "1", "2", "3", "4", "5", "6", "7", "8", "9">>

\* the i-th character of a string
CharAt(s, i) == SubSeq(s, i, i)

RECURSIVE NumToStr(_)
\* template literal `${n}` of an integer
NumToStr(n) ==
    IF n < 0 THEN "-" \o NumToStr(0 - n)
    ELSE IF n < 10 THEN DigitChars[n + 1]
    ELSE NumToStr(n \div 10) \o DigitChars[(n % 10) + 1]

DigitVal(c) == (CHOOSE i \in 1..10 : DigitChars[i] = c) - 1

RECURSIVE parseInt(_)
\* parseInt of a string of decimal digits
parseInt(s) ==
    IF Len(s) = 0 THEN 0
    ELSE 10 * parseInt(SubSeq(s, 1, Len(s) - 1)) + DigitVal(CharAt(s, Len(s)))

\* str.split("_") of a string holding one "_": the parts before and after it
SplitUnderscore(s) ==
    LET i == CHOOSE k \in 1..Len(s) :
                 CharAt(s, k) = "_" /\ \A j \in 1..(k - 1) : CharAt(s, j) # "_"
    IN  <<SubSeq(s, 1, i - 1), SubSeq(s, i + 1, Len(s))>>

_stringifyPegTuple(tuple) == NumToStr(tuple[1]) \o "_" \o NumToStr(tuple[2])

_destringifyPegTuple(str) ==
    LET split == SplitUnderscore(str)
    IN  <<parseInt(split[1]), parseInt(split[2])>>

\* Map.set
_setPeg(ps, tuple, val) ==
    LET k == _stringifyPegTuple(tuple)
    IN  IF k \in DOMAIN ps THEN [ps EXCEPT ![k] = val] ELSE (k :> val) @@ ps

getPeg_clamping(ps, tuple) ==
    LET clamp(n) == IF n < 1 THEN 1 ELSE IF n > GridSize THEN GridSize ELSE n
        k == _stringifyPegTuple(<<clamp(tuple[1]), clamp(tuple[2])>>)
    IN  IF k \in DOMAIN ps THEN ps[k] ELSE undefined

getPeg_absentIsX(ps, tuple) ==
    LET k == _stringifyPegTuple(tuple)
    IN  IF k \in DOMAIN ps THEN ps[k] ELSE X

\* Map.get
getPeg(ps, tuple) ==
    LET k == _stringifyPegTuple(tuple)
    IN  IF k \in DOMAIN ps THEN ps[k] ELSE undefined

\* the constructor's double loop: every cell of the grid set to Player.X
EmptyPegState ==
    [key \in {_stringifyPegTuple(<<i, j>>) : i \in 1..GridSize, j \in 1..GridSize} |-> X]

----------------------------------------------------------------------------
(* Exact rationals <<n, d>> with d > 0, for the code's slope arithmetic.   *)
RatInt(i) == <<i, 1>>

RatNorm(n, d) == IF d < 0 THEN <<-n, -d>> ELSE <<n, d>>

RatAdd(a, b) == <<a[1] * b[2] + b[1] * a[2], a[2] * b[2]>>

RatSub(a, b) == <<a[1] * b[2] - b[1] * a[2], a[2] * b[2]>>

RatMul(a, b) == <<a[1] * b[1], a[2] * b[2]>>

RatDiv(a, b) == RatNorm(a[1] * b[2], a[2] * b[1])

RatEq(a, b) == a[1] * b[2] = b[1] * a[2]

RatLt(a, b) == a[1] * b[2] < b[1] * a[2]

between_inclusive(val, end1, end2) ==
    \/ (~RatLt(val, end1) /\ ~RatLt(end2, val))
    \/ (~RatLt(end1, val) /\ ~RatLt(val, end2))

\* function between: val strictly between end1 and end2, in either order
between(val, end1, end2) ==
    \/ (RatLt(end1, val) /\ RatLt(val, end2))
    \/ (RatLt(val, end1) /\ RatLt(end2, val))

----------------------------------------------------------------------------
(* class Board.  An operation is an operator from the board (ps, red,      *)
(* black) and the call's arguments to the returned value and the board it  *)
(* leaves: [ret, pegState, red, black].                                    *)

Result(r, ps, red, black) == [ret |-> r, pegState |-> ps, red |-> red, black |-> black]

\* the home-row tests of placePeg
homeRowViolation_redOnly(peg, color) ==
    color = R /\ ((peg.x = 1) \/ (peg.x = GridSize))

homeRowViolation(peg, color) ==
    \/ (color = R /\ ((peg.x = 1) \/ (peg.x = GridSize)))
    \/ (color = B /\ ((peg.y = 1) \/ (peg.y = GridSize)))

placePeg_noEmptyTest(ps, red, black, peg, color) ==
    IF homeRowViolation(peg, color) THEN Result(FALSE, ps, red, black)
    ELSE Result(TRUE, _setPeg(ps, asTuple(peg), color), red, black)

placePeg(ps, red, black, peg, color) ==
    IF homeRowViolation(peg, color) THEN Result(FALSE, ps, red, black)
    ELSE IF getPeg(ps, asTuple(peg)) # X THEN Result(FALSE, ps, red, black)
    ELSE Result(TRUE, _setPeg(ps, asTuple(peg), color), red, black)

\* (peg2.y-peg1.y)**2 + (peg2.x-peg1.x)**2
Dist2(peg1, peg2) ==
    (peg2.y - peg1.y) * (peg2.y - peg1.y) + (peg2.x - peg1.x) * (peg2.x - peg1.x)

validLength_atLeast(peg1, peg2) == Dist2(peg1, peg2) >= 5

validLength(peg1, peg2) == Dist2(peg1, peg2) = 5

controlsBoth_firstOnly(ps, peg1, peg2, color) == getPeg(ps, asTuple(peg1)) = color

controlsBoth(ps, peg1, peg2, color) ==
    ~((getPeg(ps, asTuple(peg1)) # color) \/ (getPeg(ps, asTuple(peg2)) # color))

\* the slope of the line through two pegs
slope(pegA, pegB) == RatDiv(RatInt(pegB.y - pegA.y), RatInt(pegB.x - pegA.x))

sameBarrier_noReverse(peg1, peg2, peg3, peg4) == equals(peg1, peg3) /\ equals(peg2, peg4)

\* the two tests of the parallel branch: the same barrier, in either order
sameBarrier(peg1, peg2, peg3, peg4) ==
    \/ (equals(peg1, peg3) /\ equals(peg2, peg4))
    \/ (equals(peg1, peg4) /\ equals(peg2, peg3))

\* the non-parallel branch: the lines' intersection point is inside both segments
crossesInside(peg1, peg2, peg3, peg4) ==
    LET m1 == slope(peg1, peg2)
        m3 == slope(peg3, peg4)
        x  == RatDiv(RatAdd(RatSub(RatMul(RatInt(peg1.x), m1), RatMul(RatInt(peg3.x), m3)),
                            RatInt(peg3.y - peg1.y)),
                     RatSub(m1, m3))
        y  == RatAdd(RatMul(m1, RatSub(x, RatInt(peg1.x))), RatInt(peg1.y))
    IN  /\ between(x, RatInt(peg1.x), RatInt(peg2.x))
        /\ between(x, RatInt(peg3.x), RatInt(peg4.x))
        /\ between(y, RatInt(peg1.y), RatInt(peg2.y))
        /\ between(y, RatInt(peg3.y), RatInt(peg4.y))

conflicts_parallelRejects(peg1, peg2, peg3, peg4) ==
    IF RatEq(slope(peg1, peg2), slope(peg3, peg4))
    THEN TRUE
    ELSE crossesInside(peg1, peg2, peg3, peg4)

\* one pass of the loop of placeBarrier: TRUE when it returns false
conflicts(peg1, peg2, peg3, peg4) ==
    IF RatEq(slope(peg1, peg2), slope(peg3, peg4))
    THEN sameBarrier(peg1, peg2, peg3, peg4)
    ELSE crossesInside(peg1, peg2, peg3, peg4)

existingBarriers_redOnly(red, black) == red

\* this.redBarrierState.concat(this.blackBarrierState)
existingBarriers(red, black) == red \o black

orderBarrier_asGiven(peg1, peg2) == <<peg1, peg2>>

\* peg1.lt(peg2) ? [peg1,peg2] : [peg2, peg1]
orderBarrier(peg1, peg2) == IF lt(peg1, peg2) THEN <<peg1, peg2>> ELSE <<peg2, peg1>>

placeBarrier(ps, red, black, peg1, peg2, color) ==
    IF ~validLength(peg1, peg2) THEN Result(FALSE, ps, red, black)
    ELSE IF ~controlsBoth(ps, peg1, peg2, color) THEN Result(FALSE, ps, red, black)
    ELSE LET all == existingBarriers(red, black)
         IN  IF \E i \in 1..Len(all) : conflicts(peg1, peg2, all[i][1], all[i][2])
             THEN Result(FALSE, ps, red, black)
             ELSE LET barrier == orderBarrier(peg1, peg2)
                  IN  IF color = R THEN Result(TRUE, ps, Append(red, barrier), black)
                      ELSE IF color = B THEN Result(TRUE, ps, red, Append(black, barrier))
                      ELSE Result(FALSE, ps, red, black)

detached_firstEndOnly(peg, val) == ~equals(peg, val[1])

\* the filter of removePeg: the barrier val does not end at peg
detached(peg, val) == ~equals(peg, val[1]) /\ ~equals(peg, val[2])

removePeg_anyOwner(ps, red, black, peg, color) ==
    IF getPeg(ps, asTuple(peg)) \in {R, B}
    THEN IF color = R
         THEN Result(TRUE, _setPeg(ps, asTuple(peg), X),
                     SelectSeq(red, LAMBDA val : detached(peg, val)), black)
         ELSE Result(TRUE, _setPeg(ps, asTuple(peg), X),
                     red, SelectSeq(black, LAMBDA val : detached(peg, val)))
    ELSE Result(FALSE, ps, red, black)

removePeg_filterFirst(ps, red, black, peg, color) ==
    LET red2   == IF color = R THEN SelectSeq(red, LAMBDA val : detached(peg, val)) ELSE red
        black2 == IF color = R THEN black ELSE SelectSeq(black, LAMBDA val : detached(peg, val))
    IN  IF getPeg(ps, asTuple(peg)) = color
        THEN Result(TRUE, _setPeg(ps, asTuple(peg), X), red2, black2)
        ELSE Result(FALSE, ps, red2, black2)

removePeg(ps, red, black, peg, color) ==
    IF getPeg(ps, asTuple(peg)) = color
    THEN IF color = R
         THEN Result(TRUE, _setPeg(ps, asTuple(peg), X),
                     SelectSeq(red, LAMBDA val : detached(peg, val)), black)
         ELSE Result(TRUE, _setPeg(ps, asTuple(peg), X),
                     red, SelectSeq(black, LAMBDA val : detached(peg, val)))
    ELSE Result(FALSE, ps, red, black)

Splice_toEnd(s, i) == SubSeq(s, 1, i - 1)

\* Array.splice(i, 1)
Splice(s, i) == SubSeq(s, 1, i - 1) \o SubSeq(s, i + 1, Len(s))

removeBarrier(ps, red, black, peg1, peg2, color) ==
    LET barrier      == orderBarrier(peg1, peg2)
        barrierState == IF color = R THEN red ELSE black
        hits == {i \in 1..Len(barrierState) :
                    equals(barrier[1], barrierState[i][1]) /\ equals(barrier[2], barrierState[i][2])}
    IN  IF hits = {} THEN Result(FALSE, ps, red, black)
        ELSE LET i == CHOOSE k \in hits : \A j \in hits : k <= j
             IN  IF color = R THEN Result(TRUE, ps, Splice(red, i), black)
                 ELSE Result(TRUE, ps, red, Splice(black, i))

RECURSIVE adjacentScan(_, _, _)
\* the loop of getAdjacentPegs over barrierState from index i on
adjacentScan(barrierState, peg, i) ==
    IF i > Len(barrierState) THEN <<>>
    ELSE LET peg1 == barrierState[i][1]
             peg2 == barrierState[i][2]
         IN  (IF equals(peg, peg1) THEN <<peg2>> ELSE <<>>)
             \o (IF equals(peg, peg2) THEN <<peg1>> ELSE <<>>)
             \o adjacentScan(barrierState, peg, i + 1)

getAdjacentPegs_firstEndOnly(ps, red, black, peg) ==
    LET barrierState == IF getPeg(ps, asTuple(peg)) = B THEN black ELSE red
    IN  IF getPeg(ps, asTuple(peg)) \notin {R, B} THEN <<>>
        ELSE SelectSeq([i \in 1..Len(barrierState) |->
                           IF equals(peg, barrierState[i][1]) THEN barrierState[i][2] ELSE peg],
                       LAMBDA q : ~equals(q, peg))

getAdjacentPegs(ps, red, black, peg) ==
    IF getPeg(ps, asTuple(peg)) = B THEN adjacentScan(black, peg, 1)
    ELSE IF getPeg(ps, asTuple(peg)) = R THEN adjacentScan(red, peg, 1)
    ELSE <<>>

\* Array.includes
includes(s, e) == \E i \in 1..Len(s) : s[i] = e

\* the first loop of gameWon: the keys of player's pegs in the first home row
homeRowQueue(ps, player) ==
    LET cells == [i \in 1..GridSize |-> IF player = R THEN <<i, 1>> ELSE <<1, i>>]
        found == SelectSeq(cells, LAMBDA c : getPeg(ps, c) = player)
    IN  IF player \in {R, B}
        THEN [i \in 1..Len(found) |-> _stringifyPegTuple(found[i])]
        ELSE <<>>

\* adjacentPegs as the keys pushed on the queue
pushKeys(pegs) == [i \in 1..Len(pegs) |-> _stringifyPegTuple(asTuple(pegs[i]))]

RECURSIVE connectedFrom_pushAlways(_, _, _, _, _)
connectedFrom_pushAlways(ps, red, black, queue, connectedPegs) ==
    IF Len(queue) = 0 THEN connectedPegs
    ELSE LET pegStr == queue[Len(queue)]
             rest   == SubSeq(queue, 1, Len(queue) - 1)
         IN  IF ~includes(connectedPegs, pegStr)
             THEN LET t   == _destringifyPegTuple(pegStr)
                      peg == Peg(t[1], t[2])
                  IN  connectedFrom_pushAlways(ps, red, black,
                                               rest \o pushKeys(getAdjacentPegs(ps, red, black, peg)),
                                               Append(connectedPegs, pegStr))
             ELSE connectedFrom_pushAlways(ps, red, black, rest, Append(connectedPegs, pegStr))

RECURSIVE connectedFrom(_, _, _, _, _)
\* the while loop of gameWon: queue.pop() takes the last element
connectedFrom(ps, red, black, queue, connectedPegs) ==
    IF Len(queue) = 0 THEN connectedPegs
    ELSE LET pegStr == queue[Len(queue)]
             rest   == SubSeq(queue, 1, Len(queue) - 1)
         IN  IF ~includes(connectedPegs, pegStr)
             THEN LET t   == _destringifyPegTuple(pegStr)
                      peg == Peg(t[1], t[2])
                  IN  connectedFrom(ps, red, black,
                                    rest \o pushKeys(getAdjacentPegs(ps, red, black, peg)),
                                    Append(connectedPegs, pegStr))
             ELSE connectedFrom(ps, red, black, rest, connectedPegs)

gameWon(ps, red, black, player) ==
    LET connectedPegs == connectedFrom(ps, red, black, homeRowQueue(ps, player), <<>>)
    IN  \E i \in 1..Len(connectedPegs) :
            \/ (player = R /\ _destringifyPegTuple(connectedPegs[i])[2] = GridSize)
            \/ (player = B /\ _destringifyPegTuple(connectedPegs[i])[1] = GridSize)

\* the two queries as calls: the value returned and the board they leave
getAdjacentPegs_call_emptying(ps, red, black, peg) ==
    Result(getAdjacentPegs(ps, red, black, peg), ps,
           IF getPeg(ps, asTuple(peg)) = R THEN <<>> ELSE red,
           IF getPeg(ps, asTuple(peg)) = B THEN <<>> ELSE black)

getAdjacentPegs_call(ps, red, black, peg) ==
    Result(getAdjacentPegs(ps, red, black, peg), ps, red, black)

gameWon_call(ps, red, black, player) ==
    Result(gameWon(ps, red, black, player), ps, red, black)

----------------------------------------------------------------------------
(* The callers' inputs.  The coordinates offered to the Board are the      *)
(* first NCells of CellList.  Among the first five, (5,1) lies on a line   *)
(* closed to Black and (1,2) on a line closed to Red; the knight moves     *)
(* are (4,3)-(5,1), (3,3)-(5,2) and (1,2)-(3,3): the first two cross, the  *)
(* last two share the endpoint (3,3); (3,3)-(5,1) is at squared distance   *)
(* 8.  The sixth cell adds (2,2)-(4,3), which crosses (3,3)-(5,2) and is   *)
(* parallel to (1,2)-(3,3).  One coordinate outside the grid is offered    *)
(* as well: (0,4), a knight move away from (1,2).                          *)
NCells == 5

CellList ==
    <<Peg(5, 1), Peg(4, 3), Peg(3, 3), Peg(5, 2), Peg(1, 2), Peg(2, 2), Peg(4, 4)>>

\* coordinates no cell of the grid has: x or y below 1 or above GridSize
OffGrid == {Peg(0, 4), Peg(3, 0), Peg(25, 2), Peg(4, 25), Peg(0 - 1, 3)}

Cells == {CellList[i] : i \in {j \in 1..Len(CellList) : j <= NCells}} \cup OffGrid

\* endpoint pairs offered to placeBarrier and removeBarrier: every knight
\* move, and the pairs at squared distance 8 for the length test to reject
OfferedDist2 == {5, 8}

Pairs == {pq \in Cells \X Cells : Dist2(pq[1], pq[2]) \in OfferedDist2}

Call(op, peg1, peg2, color) == [op |-> op, peg1 |-> peg1, peg2 |-> peg2, color |-> color]

\* no query of the Board has been made
NoQuery == [op |-> "none", peg |-> Peg(0, 0), player |-> X, value |-> <<>>]

\* a Board used on its own: there is no Game object and no page
NoGame == "none"

NoEvent == "none"

\* one Board call: the board it leaves, what it returned
Call_effect(call, r) ==
    /\ pegState' = r.pegState
    /\ redBarrierState' = r.red
    /\ blackBarrierState' = r.black
    /\ ret' = r.ret
    /\ last' = call
    /\ prev' = [red |-> redBarrierState, black |-> blackBarrierState]

\* the step of one Board call made directly on the Board; query keeps the
\* last query made since the last such call
Apply(call, r) ==
    /\ Call_effect(call, r)
    /\ query' = NoQuery
    /\ UNCHANGED <<game, event>>

Init ==
    /\ pegState = EmptyPegState
    /\ redBarrierState = <<>>
    /\ blackBarrierState = <<>>
    /\ last = Call("new", Peg(0, 0), Peg(0, 0), X)
    /\ ret = TRUE
    /\ prev = [red |-> <<>>, black |-> <<>>]
    /\ query = NoQuery
    /\ game = NoGame
    /\ event = NoEvent

PlacePeg ==
    /\ ret = TRUE
    /\ \E peg \in Cells, color \in Player :
           Apply(Call("placePeg", peg, peg, color),
                 placePeg(pegState, redBarrierState, blackBarrierState, peg, color))

PlaceBarrier ==
    /\ ret = TRUE
    /\ \E pq \in Pairs, color \in Player :
           Apply(Call("placeBarrier", pq[1], pq[2], color),
                 placeBarrier(pegState, redBarrierState, blackBarrierState, pq[1], pq[2], color))

RemovePeg ==
    /\ ret = TRUE
    /\ \E peg \in Cells, color \in Player :
           Apply(Call("removePeg", peg, peg, color),
                 removePeg(pegState, redBarrierState, blackBarrierState, peg, color))

RemoveBarrier ==
    /\ ret = TRUE
    /\ \E pq \in Pairs, color \in Player :
           Apply(Call("removeBarrier", pq[1], pq[2], color),
                 removeBarrier(pegState, redBarrierState, blackBarrierState, pq[1], pq[2], color))

Next == PlacePeg \/ PlaceBarrier \/ RemovePeg \/ RemoveBarrier

Spec == Init /\ [][Next]_vars

----------------------------------------------------------------------------
(* A second caller, for win detection: one player at a time builds a lane  *)
(* from its first home row to its last.  Red's lane climbs from (2,1) to   *)
(* (5,24) by knight moves, with a second way round (2,5) through (4,5),    *)
(* so that the barrier graph has a cycle; Black's lane is its mirror       *)
(* image.  Pegs and barriers are placed in lane order, the lowest missing  *)
(* first; any peg or barrier may be removed from a board built in lane     *)
(* order, and is then put back the same way.                               *)
RedLane ==
    <<Peg(2, 1), Peg(3, 3), Peg(2, 5), Peg(4, 5), Peg(3, 7), Peg(2, 9), Peg(3, 11),
      Peg(2, 13), Peg(3, 15), Peg(2, 17), Peg(3, 19), Peg(2, 21), Peg(3, 23), Peg(5, 24)>>

\* the lane's barriers, as pairs of positions in the lane
LaneLinks ==
    <<<<1, 2>>, <<2, 3>>, <<2, 4>>, <<3, 5>>, <<4, 5>>, <<5, 6>>, <<6, 7>>, <<7, 8>>,
      <<8, 9>>, <<9, 10>>, <<10, 11>>, <<11, 12>>, <<12, 13>>, <<13, 14>>>>

Mirror(peg) == Peg(peg.y, peg.x)

BlackLane == [i \in 1..Len(RedLane) |-> Mirror(RedLane[i])]

Lane(color) == IF color = R THEN RedLane ELSE BlackLane

\* the lanes' barriers as the Board stores them
RedLinks ==
    [k \in 1..Len(LaneLinks) |-> orderBarrier(RedLane[LaneLinks[k][1]], RedLane[LaneLinks[k][2]])]

BlackLinks ==
    [k \in 1..Len(LaneLinks) |-> orderBarrier(BlackLane[LaneLinks[k][1]], BlackLane[LaneLinks[k][2]])]

Links(color) == IF color = R THEN RedLinks ELSE BlackLinks

Other(color) == IF color = R THEN B ELSE R

BarriersOf(color) == IF color = R THEN redBarrierState ELSE blackBarrierState

PegsPlaced(color) ==
    {i \in 1..Len(RedLane) : getPeg(pegState, asTuple(Lane(color)[i])) = color}

LinksPlaced(color) ==
    {k \in 1..Len(LaneLinks) : includes(BarriersOf(color), Links(color)[k])}

\* the other player has no peg on the board
Alone(color) == \A i \in 1..Len(RedLane) : getPeg(pegState, asTuple(Lane(Other(color))[i])) # Other(color)

\* the board was built in lane order and nothing is missing in the middle
InLaneOrder(color) ==
    /\ BarriersOf(color) = SubSeq(Links(color), 1, Len(BarriersOf(color)))
    /\ LET placed == PegsPlaced(color) IN placed = 1..Cardinality(placed)

Lowest(S) == CHOOSE i \in S : \A j \in S : i <= j

WinPlacePeg ==
    /\ ret = TRUE
    /\ \E color \in {R, B} :
           LET missing == (1..Len(RedLane)) \ PegsPlaced(color)
           IN  /\ missing # {}
               /\ Alone(color)
               /\ LET peg == Lane(color)[Lowest(missing)]
                  IN  Apply(Call("placePeg", peg, peg, color),
                            placePeg(pegState, redBarrierState, blackBarrierState, peg, color))

WinPlaceBarrier ==
    /\ ret = TRUE
    /\ \E color \in {R, B} :
           LET missing == (1..Len(LaneLinks)) \ LinksPlaced(color)
           IN  /\ missing # {}
               /\ Alone(color)
               /\ getPeg(pegState, asTuple(Lane(color)[1])) = color
               /\ \E swap \in BOOLEAN :
                     LET k    == Lowest(missing)
                         peg1 == Lane(color)[LaneLinks[k][IF swap THEN 2 ELSE 1]]
                         peg2 == Lane(color)[LaneLinks[k][IF swap THEN 1 ELSE 2]]
                     IN  Apply(Call("placeBarrier", peg1, peg2, color),
                               placeBarrier(pegState, redBarrierState, blackBarrierState,
                                            peg1, peg2, color))

WinRemovePeg ==
    /\ ret = TRUE
    /\ \E color \in {R, B} :
           /\ InLaneOrder(color)
           /\ \E i \in PegsPlaced(color) :
                 LET peg == Lane(color)[i]
                 IN  Apply(Call("removePeg", peg, peg, color),
                           removePeg(pegState, redBarrierState, blackBarrierState, peg, color))

WinRemoveBarrier ==
    /\ ret = TRUE
    /\ \E color \in {R, B} :
           /\ InLaneOrder(color)
           /\ \E k \in 1..Len(BarriersOf(color)), swap \in BOOLEAN :
                 LET peg1 == Lane(color)[LaneLinks[k][IF swap THEN 2 ELSE 1]]
                     peg2 == Lane(color)[LaneLinks[k][IF swap THEN 1 ELSE 2]]
                 IN  Apply(Call("removeBarrier", peg1, peg2, color),
                           removeBarrier(pegState, redBarrierState, blackBarrierState,
                                         peg1, peg2, color))

NextWin == WinPlacePeg \/ WinPlaceBarrier \/ WinRemovePeg \/ WinRemoveBarrier

SpecWin == Init /\ [][NextWin]_vars

----------------------------------------------------------------------------
(* A third caller, for the geometry of placeBarrier.  The board it starts  *)
(* from holds one barrier, from GeomAnchor to a knight move to its right,  *)
(* and two more pegs a knight move apart, the first within GeomReach of    *)
(* the anchor in x and in y: the board after two to four placePeg calls    *)
(* and one placeBarrier.  The caller then makes one placeBarrier call      *)
(* between two pegs of one color a knight move apart.  Every position of   *)
(* two knight-move segments whose bounding boxes overlap is a translation  *)
(* of one of these.                                                        *)
GeomAnchor == Peg(12, 12)

GeomReach == 3

KnightMoves == {d \in {-2, -1, 1, 2} \X {-2, -1, 1, 2} : d[1] * d[1] + d[2] * d[2] = 5}

Shift(peg, d) == Peg(peg.x + d[1], peg.y + d[2])

GeomCells ==
    {Peg(x, y) : x \in (GeomAnchor.x - GeomReach - 2)..(GeomAnchor.x + GeomReach + 2),
                 y \in (GeomAnchor.y - GeomReach - 2)..(GeomAnchor.y + GeomReach + 2)}

\* the board after placePeg(peg, color) for every peg of pegs3, color3 and of
\* pegs1, color1, and placeBarrier(peg3, peg4, color3)
GeomBoard(peg1, peg2, color1, peg3, peg4, color3) ==
    LET ps1 == placePeg(EmptyPegState, <<>>, <<>>, peg3, color3).pegState
        ps2 == placePeg(ps1, <<>>, <<>>, peg4, color3).pegState
        ps3 == placePeg(ps2, <<>>, <<>>, peg1, color1).pegState
        ps4 == placePeg(ps3, <<>>, <<>>, peg2, color1).pegState
    IN  placeBarrier(ps4, <<>>, <<>>, peg3, peg4, color3)

GeomInit ==
    \E d3 \in {d \in KnightMoves : d[1] > 0}, d1 \in KnightMoves,
       dx \in (-GeomReach)..GeomReach, dy \in (-GeomReach)..GeomReach,
       color1 \in {R, B}, color3 \in {R, B} :
        LET peg3 == GeomAnchor
            peg4 == Shift(GeomAnchor, d3)
            peg1 == Shift(GeomAnchor, <<dx, dy>>)
            peg2 == Shift(peg1, d1)
            r    == GeomBoard(peg1, peg2, color1, peg3, peg4, color3)
        IN  /\ ({peg1, peg2} \cap {peg3, peg4} # {}) => (color1 = color3)
            /\ pegState = r.pegState
            /\ redBarrierState = r.red
            /\ blackBarrierState = r.black
            /\ last = Call("placeBarrier", peg3, peg4, color3)
            /\ ret = r.ret
            /\ prev = [red |-> <<>>, black |-> <<>>]
            /\ query = NoQuery
            /\ game = NoGame
            /\ event = NoEvent

GeomPlaceBarrier ==
    /\ ret = TRUE
    /\ Len(redBarrierState) + Len(blackBarrierState) = 1
    /\ \E peg1 \in GeomCells :
          /\ getPeg(pegState, asTuple(peg1)) \in {R, B}
          /\ \E d \in KnightMoves :
                LET color == getPeg(pegState, asTuple(peg1))
                    peg2  == Shift(peg1, d)
                IN  /\ getPeg(pegState, asTuple(peg2)) = color
                    /\ Apply(Call("placeBarrier", peg1, peg2, color),
                             placeBarrier(pegState, redBarrierState, blackBarrierState,
                                          peg1, peg2, color))

NextGeom == GeomPlaceBarrier

SpecGeom == GeomInit /\ [][NextGeom]_vars

----------------------------------------------------------------------------
(* A fourth caller, for the queries.  It builds one player's lane as the   *)
(* second caller does, pegs and barriers in lane order, takes a barrier    *)
(* away only from a complete lane, and asks gameWon and getAdjacentPegs    *)
(* at any time, any number of times in any order.                          *)
\* the pegs getAdjacentPegs is asked about: the peg of either lane where
\* three barriers meet, a peg with two, and a cell off both lanes
QueryCells == {RedLane[2], RedLane[5], BlackLane[5], Peg(12, 12)}

\* the step of one query: the value it returned, the board it leaves
Ask(q, r) ==
    /\ pegState' = r.pegState
    /\ redBarrierState' = r.red
    /\ blackBarrierState' = r.black
    /\ query' = [q EXCEPT !.value = r.ret]
    /\ UNCHANGED <<last, ret, prev, game, event>>

GameWon ==
    \E player \in Player :
        Ask([op |-> "gameWon", peg |-> Peg(0, 0), player |-> player, value |-> <<>>],
            gameWon_call(pegState, redBarrierState, blackBarrierState, player))

GetAdjacentPegs ==
    \E peg \in QueryCells :
        Ask([op |-> "getAdjacentPegs", peg |-> peg, player |-> X, value |-> <<>>],
            getAdjacentPegs_call(pegState, redBarrierState, blackBarrierState, peg))

\* removeBarrier of one barrier of a complete lane
QueryRemoveBarrier ==
    /\ ret = TRUE
    /\ \E color \in {R, B} :
           /\ BarriersOf(color) = Links(color)
           /\ \E k \in 1..Len(LaneLinks) :
                 LET peg1 == Lane(color)[LaneLinks[k][1]]
                     peg2 == Lane(color)[LaneLinks[k][2]]
                 IN  Apply(Call("removeBarrier", peg1, peg2, color),
                           removeBarrier(pegState, redBarrierState, blackBarrierState,
                                         peg1, peg2, color))

NextQuery == WinPlacePeg \/ WinPlaceBarrier \/ QueryRemoveBarrier \/ GameWon \/ GetAdjacentPegs

SpecQuery == Init /\ [][NextQuery]_vars

----------------------------------------------------------------------------
(* class BoardDisplay, the part the Game's handlers use: the position of a *)
(* mouse event to the peg under it.  The canvas has its top left corner at *)
(* (CanvasLeft, CanvasTop) of the window and is drawn unscaled             *)
(* (canvas.width / bbox.width = 1).                                        *)
\* null, a value that is no peg and no position
null == [null |-> TRUE]

\* null in a field that holds a Player otherwise
nullPlayer == "null"

TWIXT_GRID_WIDTH == 24

CanvasLeft == 8

CanvasTop == 8

\* Math.round(n / d) for n >= 0 and d > 0
RoundDiv(n, d) == (2 * n + d) \div (2 * d)

_windowToCanvas(x, y) == [x |-> x - CanvasLeft * 1, y |-> y - CanvasTop * 1]

_canvasToPeg(coords) ==
    LET x == RoundDiv(coords.x, TWIXT_GRID_WIDTH)
        y == RoundDiv(coords.y, TWIXT_GRID_WIDTH)
    IN  IF (coords.x - x * TWIXT_GRID_WIDTH) * (coords.x - x * TWIXT_GRID_WIDTH)
             + (coords.y - y * TWIXT_GRID_WIDTH) * (coords.y - y * TWIXT_GRID_WIDTH) <= 100
        THEN Peg(x, y)
        ELSE null

windowToPeg(x, y) == _canvasToPeg(_windowToCanvas(x, y))

----------------------------------------------------------------------------
(* class Game.  game is the record of its fields and of the six buttons;   *)
(* the Board it owns is pegState, redBarrierState, blackBarrierState.  The *)
(* text updateInfoDiv writes and the current-selection class of a button   *)
(* are display only and are left out.                                      *)

\* the buttons of the page before any script has run: a button element is
\* visible and enabled unless the page says otherwise
PageButtons == [i \in 1..6 |-> [visibility |-> "visible", disabled |-> FALSE]]

\* one pass of the loop of setButtonState
setButton(button, c) ==
    IF c = "A" THEN [visibility |-> "visible", disabled |-> FALSE]
    ELSE IF c = "C" THEN [visibility |-> "visible", disabled |-> FALSE]
    ELSE IF c = "D" THEN [visibility |-> "visible", disabled |-> TRUE]
    ELSE IF c = "H" THEN [button EXCEPT !.visibility = "hidden"]
    ELSE button

setButtonState(buttons, state) == [i \in 1..6 |-> setButton(buttons[i], CharAt(state, i))]

buttonString_endTurnWhenOver(state) ==
    IF state = 1 THEN "ADCCDH"
    ELSE IF state = 2 THEN "DADDCH"
    ELSE IF state = 3 THEN "CDACDH"
    ELSE IF state = 4 THEN "CDCADH"
    ELSE "DDDDCC"

buttonString_removeAfterPeg(state) ==
    IF state = 1 THEN "ADCCDH"
    ELSE IF state = 2 THEN "DACDCH"
    ELSE IF state = 3 THEN "CDACDH"
    ELSE IF state = 4 THEN "CDCADH"
    ELSE "DDDDDC"

\* the string setGameState passes to setButtonState
buttonString(state) ==
    IF state = 1 THEN "ADCCDH"
    ELSE IF state = 2 THEN "DADDCH"
    ELSE IF state = 3 THEN "CDACDH"
    ELSE IF state = 4 THEN "CDCADH"
    ELSE "DDDDDC"

setGameState(g, state) ==
    LET g1 == IF state \in {2, 4, 5}
              THEN [g EXCEPT !.currentEndpointPeg = null, !.movingEndpoint = null]
              ELSE g
        g2 == IF state \in 1..5
              THEN [g1 EXCEPT !.buttons = setButtonState(g1.buttons, buttonString(state))]
              ELSE g1
    IN  [g2 EXCEPT !.gameState = state]

\* initialize(), the Board apart
initialize(buttons) ==
    setGameState([currentPlayer |-> R, gameState |-> 0, currentEndpointPeg |-> null,
                  movingEndpoint |-> null, winner |-> nullPlayer, buttons |-> buttons], 1)

endTurn(g) == setGameState([g EXCEPT !.currentPlayer = IF g.currentPlayer = R THEN B ELSE R], 1)

\* what a handler leaves: the Game's fields, the Board, and the Board
\* mutator it called with the value that returned
NoCall == Call("none", Peg(0, 0), Peg(0, 0), X)

Outcome(g, r, call) == [game |-> g, board |-> r, call |-> call]

Quiet(g, ps, red, black) == Outcome(g, Result(TRUE, ps, red, black), NoCall)

onmousedown(g, ps, red, black, e) ==
    LET peg   == windowToPeg(e.x, e.y)
        taken == [g EXCEPT !.currentEndpointPeg = peg, !.movingEndpoint = e]
    IN  IF g.gameState = 2
        THEN IF peg # null /\ getPeg(ps, asTuple(peg)) = g.currentPlayer
             THEN Quiet(taken, ps, red, black)
             ELSE Quiet(g, ps, red, black)
        ELSE IF g.gameState = 4
        THEN IF /\ peg # null
                /\ getPeg(ps, asTuple(peg)) = g.currentPlayer
                /\ Len(getAdjacentPegs(ps, red, black, peg)) > 0
             THEN Quiet(taken, ps, red, black)
             ELSE Quiet(g, ps, red, black)
        ELSE Quiet(g, ps, red, black)

wonAfterBarrier_redOnly(g, ps, red, black) == gameWon(ps, red, black, R)

\* the test of onmouseup after a successful placeBarrier
wonAfterBarrier(g, ps, red, black) == gameWon(ps, red, black, g.currentPlayer)

onmouseup(g, ps, red, black, e) ==
    LET peg     == windowToPeg(e.x, e.y)
        dropped == [g EXCEPT !.movingEndpoint = null, !.currentEndpointPeg = null]
    IN  IF g.gameState = 1
        THEN IF peg # null
             THEN LET r == placePeg(ps, red, black, peg, g.currentPlayer)
                  IN  Outcome(IF r.ret THEN setGameState(g, 2) ELSE g, r,
                              Call("placePeg", peg, peg, g.currentPlayer))
             ELSE Quiet(g, ps, red, black)
        ELSE IF g.gameState = 2
        THEN IF peg # null /\ g.currentEndpointPeg # null
             THEN LET r == placeBarrier(ps, red, black, g.currentEndpointPeg, peg, g.currentPlayer)
                      over == r.ret /\ wonAfterBarrier(g, r.pegState, r.red, r.black)
                      g5 == setGameState([g EXCEPT !.winner = g.currentPlayer], 5)
                  IN  Outcome(IF over
                              THEN [g5 EXCEPT !.movingEndpoint = null, !.currentEndpointPeg = null]
                              ELSE dropped,
                              r, Call("placeBarrier", g.currentEndpointPeg, peg, g.currentPlayer))
             ELSE Quiet(dropped, ps, red, black)
        ELSE IF g.gameState = 3
        THEN IF peg # null
             THEN Outcome(g, removePeg(ps, red, black, peg, g.currentPlayer),
                          Call("removePeg", peg, peg, g.currentPlayer))
             ELSE Quiet(g, ps, red, black)
        ELSE IF g.gameState = 4
        THEN IF peg # null /\ g.currentEndpointPeg # null
             THEN Outcome(dropped,
                          removeBarrier(ps, red, black, g.currentEndpointPeg, peg, g.currentPlayer),
                          Call("removeBarrier", g.currentEndpointPeg, peg, g.currentPlayer))
             ELSE Quiet(dropped, ps, red, black)
        ELSE Quiet(g, ps, red, black)

onmousemove(g, ps, red, black, e) ==
    IF g.gameState \in {2, 4}
    THEN Quiet([g EXCEPT !.movingEndpoint = e], ps, red, black)
    ELSE Quiet(g, ps, red, black)

\* a click reaches a button's onclick only if the button is visible and enabled
Clickable(i) == game.buttons[i].visibility = "visible" /\ ~game.buttons[i].disabled

----------------------------------------------------------------------------
(* The page: two players at the mouse.  Red builds RedLane; Black builds   *)
(* BlackGameLane, which starts at (1,4) and runs to (24,7); its first      *)
(* barrier (1,4)-(3,5) crosses Red's second, (3,3)-(2,5), so that the      *)
(* player who places the one first stops the other.  The mouse is pressed  *)
(* and released over the pegs the player to move aims at in the phase the  *)
(* game is in (placing a peg: the lowest peg of the lane not yet placed    *)
(* and the highest placed; placing a barrier: the ends of the lowest       *)
(* barrier not yet placed; removing a peg: the highest peg placed;         *)
(* removing a barrier: the ends of the last barrier of the array; in every *)
(* phase also the highest peg of the opponent's lane) and over             *)
(* a point off every peg, to which it is also moved.  The two remove       *)
(* buttons are clicked only while the player to move holds at most         *)
(* RemoveUpTo pegs, and the turn is ended only with at most MaxLag         *)
(* barriers of the lane left to place, or when the lowest of them is       *)
(* crossed by a barrier of the opponent.                                   *)
(* event is the Board mutator the last handler called, the color it was    *)
(* called with and what that returned, and the number of successful placePeg calls since the last    *)
(* endTurn (pegs) and since the last endTurn or initialize (pegsInGame).   *)
BlackGameLane ==
    <<Peg(1, 4), Peg(3, 5), Peg(5, 4), Peg(7, 5), Peg(9, 4), Peg(11, 5), Peg(13, 4),
      Peg(15, 5), Peg(17, 4), Peg(19, 5), Peg(21, 4), Peg(23, 5), Peg(24, 7)>>

RemoveUpTo == 2

GameLane(color) == IF color = R THEN RedLane ELSE BlackGameLane

BlackGameLinks ==
    [k \in 1..(Len(BlackGameLane) - 1) |-> orderBarrier(BlackGameLane[k], BlackGameLane[k + 1])]

GameLinks(color) == IF color = R THEN RedLinks ELSE BlackGameLinks

\* the pegs of color's lane on the board, as positions in the lane
OnBoard(color) ==
    {i \in 1..Len(GameLane(color)) : getPeg(pegState, asTuple(GameLane(color)[i])) = color}

MaxLag == 1

\* the barriers of color's lane that can be placed: both ends on the board,
\* not yet in the array
Open(color) ==
    {k \in 1..Len(GameLinks(color)) :
        /\ getPeg(pegState, asTuple(GameLinks(color)[k][1])) = color
        /\ getPeg(pegState, asTuple(GameLinks(color)[k][2])) = color
        /\ ~includes(BarriersOf(color), GameLinks(color)[k])}

\* the lowest of them is crossed by a barrier of the opponent
Barred(color) ==
    /\ Open(color) # {}
    /\ LET link == GameLinks(color)[Lowest(Open(color))]
           theirs == BarriersOf(Other(color))
       IN  \E i \in 1..Len(theirs) : conflicts(link[1], link[2], theirs[i][1], theirs[i][2])

\* the highest peg of color's lane on the board, if any
Highest(color) ==
    LET placed == OnBoard(color)
    IN  IF placed = {} THEN {}
        ELSE {GameLane(color)[CHOOSE i \in placed : \A j \in placed : j <= i]}

\* the pegs the player to move aims at in the phase the game is in
AimPegs(color) ==
    LET lane     == GameLane(color)
        links    == GameLinks(color)
        noPeg    == (1..Len(lane)) \ OnBoard(color)
        noLink   == {k \in 1..Len(links) : ~includes(BarriersOf(color), links[k])}
        mine     == BarriersOf(color)
        theirs   == Highest(Other(color))
    IN  IF game.gameState = 1
        THEN (IF noPeg = {} THEN {} ELSE {lane[Lowest(noPeg)]}) \cup Highest(color) \cup theirs
        ELSE IF game.gameState = 2
        THEN (IF noLink = {} THEN {} ELSE {links[Lowest(noLink)][1], links[Lowest(noLink)][2]})
             \cup theirs
        ELSE IF game.gameState = 3
        THEN Highest(color) \cup theirs
        ELSE IF game.gameState = 4
        THEN (IF mine = <<>> THEN {} ELSE {mine[Len(mine)][1], mine[Len(mine)][2]}) \cup theirs
        ELSE {}

\* the mouse over a peg, a little off its centre
Over(peg) ==
    [x |-> CanvasLeft + TWIXT_GRID_WIDTH * peg.x + 3, y |-> CanvasTop + TWIXT_GRID_WIDTH * peg.y - 4]

\* the mouse between four pegs
OffPegs == [x |-> CanvasLeft + TWIXT_GRID_WIDTH * 12 + 12, y |-> CanvasTop + TWIXT_GRID_WIDTH * 12 + 12]

Positions == {Over(peg) : peg \in AimPegs(game.currentPlayer)} \cup {OffPegs}

\* the step of one event: what its handler leaves.  last, ret and prev
\* record the calls of the callers above and stay as they are; the call of
\* a handler is recorded in event.  turn is "endTurn" for the click that
\* ends a turn, "initialize" for the one that starts a game, "" otherwise.
Deliver(turn, o) ==
    LET placed == IF o.call.op = "placePeg" /\ o.board.ret THEN 1 ELSE 0
    IN  /\ game' = o.game
        /\ event' = [called     |-> o.call.op,
                     color      |-> o.call.color,
                     ret        |-> o.board.ret,
                     pegs       |-> IF turn = "endTurn" THEN 0 ELSE event.pegs + placed,
                     pegsInGame |-> IF turn \in {"endTurn", "initialize"} THEN 0
                                    ELSE event.pegsInGame + placed]
        /\ pegState' = o.board.pegState
        /\ redBarrierState' = o.board.red
        /\ blackBarrierState' = o.board.black
        /\ UNCHANGED <<last, ret, prev, query>>

\* the state when the script has run: new Game(), the onclick handlers set
GameInit ==
    /\ pegState = EmptyPegState
    /\ redBarrierState = <<>>
    /\ blackBarrierState = <<>>
    /\ last = Call("new", Peg(0, 0), Peg(0, 0), X)
    /\ ret = TRUE
    /\ prev = [red |-> <<>>, black |-> <<>>]
    /\ query = NoQuery
    /\ game = initialize(PageButtons)
    /\ event = [called |-> "none", color |-> X, ret |-> TRUE, pegs |-> 0, pegsInGame |-> 0]

MouseDown ==
    \E e \in Positions :
        Deliver("", onmousedown(game, pegState, redBarrierState, blackBarrierState, e))

MouseUp ==
    \E e \in Positions :
        Deliver("", onmouseup(game, pegState, redBarrierState, blackBarrierState, e))

MouseMove ==
    \E e \in {OffPegs} :
        Deliver("", onmousemove(game, pegState, redBarrierState, blackBarrierState, e))

ClickPlacePeg ==
    /\ Clickable(1)
    /\ Deliver("",
               Quiet(setGameState(game, 1), pegState, redBarrierState, blackBarrierState))

ClickPlaceBarrier ==
    /\ Clickable(2)
    /\ Deliver("",
               Quiet(setGameState(game, 2), pegState, redBarrierState, blackBarrierState))

ClickRemovePeg ==
    /\ Clickable(3)
    /\ Cardinality(OnBoard(game.currentPlayer)) <= RemoveUpTo
    /\ Deliver("",
               Quiet(setGameState(game, 3), pegState, redBarrierState, blackBarrierState))

ClickRemoveBarrier ==
    /\ Clickable(4)
    /\ Cardinality(OnBoard(game.currentPlayer)) <= RemoveUpTo
    /\ Deliver("",
               Quiet(setGameState(game, 4), pegState, redBarrierState, blackBarrierState))

ClickEndTurn ==
    /\ Clickable(5)
    /\ Barred(game.currentPlayer) \/ Cardinality(Open(game.currentPlayer)) <= MaxLag
    /\ Deliver("endTurn",
               Quiet(endTurn(game), pegState, redBarrierState, blackBarrierState))

\* initialize(): a new Board and the Game's fields set anew
ClickNewGame ==
    /\ Clickable(6)
    /\ Deliver("initialize",
               Outcome(initialize(game.buttons), Result(TRUE, EmptyPegState, <<>>, <<>>),
                       Call("new", Peg(0, 0), Peg(0, 0), X)))

NextGame ==
    \/ MouseDown \/ MouseUp \/ MouseMove
    \/ ClickPlacePeg \/ ClickPlaceBarrier \/ ClickRemovePeg \/ ClickRemoveBarrier
    \/ ClickEndTurn \/ ClickNewGame

SpecGame == GameInit /\ [][NextGame]_vars

----------------------------------------------------------------------------
(* The properties.                                                         *)

\* the occupant of a cell now
CellNow(peg) == getPeg(pegState, asTuple(peg))

\* the lines closed to a player: x in {1,24} for Red, y in {1,24} for Black
Forbidden(peg, color) ==
    \/ (color = R /\ peg.x \in {1, 24})
    \/ (color = B /\ peg.y \in {1, 24})

AllBarriers == redBarrierState \o blackBarrierState

PrevBarriers == prev.red \o prev.black

\* twice the signed area of the triangle p, q, r
Orient(p, q, r) == (q.x - p.x) * (r.y - p.y) - (q.y - p.y) * (r.x - p.x)

\* the segments a-b and c-d cross at a point strictly inside both
ProperlyCross(a, b, c, d) ==
    /\ Orient(a, b, c) * Orient(a, b, d) < 0
    /\ Orient(c, d, a) * Orient(c, d, b) < 0

\* C1: placePeg(peg, color), color Red or Black, returns true if and only if
\* the cell is None and the peg is not on a line closed to the mover; so a
\* placePeg on a cell that holds a peg fails, whatever the color.
C1_PlacePegIffEmptyAndAllowed ==
    [][\A peg \in Cells, color \in {R, B} :
          last' = Call("placePeg", peg, peg, color) =>
              /\ ret' = (CellNow(peg) = X /\ ~Forbidden(peg, color))
              /\ (CellNow(peg) \in {R, B} => ret' = FALSE)]_vars

\* a placePeg on a cell the other player holds, off the mover's closed lines, failed
C1_Witness ==
    /\ last.op = "placePeg"
    /\ last.color \in {R, B}
    /\ ret = FALSE
    /\ CellNow(last.peg1) = Other(last.color)
    /\ ~Forbidden(last.peg1, last.color)

\* C2: no two barriers on the board, of the same owner or not, properly
\* cross; a placeBarrier whose segment properly crosses an existing barrier
\* returns false and adds nothing.
C2_NoTwoBarriersCross ==
    /\ \A i, j \in 1..Len(AllBarriers) :
          i # j => ~ProperlyCross(AllBarriers[i][1], AllBarriers[i][2],
                                  AllBarriers[j][1], AllBarriers[j][2])
    /\ (/\ last.op = "placeBarrier"
        /\ \E i \in 1..Len(PrevBarriers) :
              ProperlyCross(last.peg1, last.peg2, PrevBarriers[i][1], PrevBarriers[i][2]))
       => (ret = FALSE /\ AllBarriers = PrevBarriers)

\* a knight move between two pegs of the mover was refused because it crosses
\* a barrier of the other player
C2_Witness ==
    /\ last.op = "placeBarrier"
    /\ last.color \in {R, B}
    /\ ret = FALSE
    /\ Dist2(last.peg1, last.peg2) = 5
    /\ CellNow(last.peg1) = last.color
    /\ CellNow(last.peg2) = last.color
    /\ \E i \in 1..Len(BarriersOf(Other(last.color))) :
          ProperlyCross(last.peg1, last.peg2,
                        BarriersOf(Other(last.color))[i][1], BarriersOf(Other(last.color))[i][2])

BarrierSet(player) == {BarriersOf(player)[i] : i \in 1..Len(BarriersOf(player))}

\* S, with the pegs that one of player's barriers joins to a peg of S
Joined(player, S) ==
    S \cup {b[2] : b \in {c \in BarrierSet(player) : c[1] \in S}}
      \cup {b[1] : b \in {c \in BarrierSet(player) : c[2] \in S}}

RECURSIVE ReachableFrom(_, _)
\* every peg a path of player's barriers joins to a peg of S
ReachableFrom(player, S) ==
    IF Joined(player, S) = S THEN S ELSE ReachableFrom(player, Joined(player, S))

\* player's pegs in its first home row (Red: y = 1, Black: x = 1)
FirstRowPegs(player) ==
    {peg \in {IF player = R THEN Peg(i, 1) ELSE Peg(1, i) : i \in 1..24} : CellNow(peg) = player}

\* a path of player's barriers joins a peg of player in its first home row
\* to a peg of player in its last (Red: y = 24, Black: x = 24)
PathAcross(player) ==
    \E peg \in ReachableFrom(player, FirstRowPegs(player)) :
        /\ CellNow(peg) = player
        /\ IF player = R THEN peg.y = 24 ELSE peg.x = 24

\* C3: gameWon(Red) is true if and only if a path of Red barriers joins a Red
\* peg with y = 1 to a Red peg with y = 24, and gameWon(Black) if and only if
\* a path of Black barriers joins a Black peg with x = 1 to one with x = 24.
C3_GameWonIffPathAcross ==
    \A player \in {R, B} :
        gameWon(pegState, redBarrierState, blackBarrierState, player) <=> PathAcross(player)

\* a player has won with a barrier of the lane missing: the path goes the
\* other way round the cycle
C3_Witness ==
    \E player \in {R, B} :
        /\ gameWon(pegState, redBarrierState, blackBarrierState, player)
        /\ Len(BarriersOf(player)) < Len(LaneLinks)
        /\ last.op = "removeBarrier"
        /\ ret = TRUE

\* C4: every barrier in redBarrierState has both endpoints on cells that hold
\* Red pegs, and every barrier in blackBarrierState on cells that hold Black pegs.
C4_BarrierEndpointsOwned ==
    \A player \in {R, B} :
        \A i \in 1..Len(BarriersOf(player)) :
            /\ CellNow(BarriersOf(player)[i][1]) = player
            /\ CellNow(BarriersOf(player)[i][2]) = player

\* a removePeg took away the peg two barriers ended at, and both barriers with it
C4_Witness ==
    /\ last.op = "removePeg"
    /\ ret = TRUE
    /\ Len(PrevBarriers) = 2
    /\ Len(AllBarriers) = 0

\* C5: placeBarrier returns true only when the endpoints are at squared
\* distance exactly 5 and both cells hold a peg of color.
C5_PlaceBarrierOnlyKnightMoveOwned ==
    [][\A pq \in Pairs, color \in Player :
          (last' = Call("placeBarrier", pq[1], pq[2], color) /\ ret' = TRUE) =>
              /\ Dist2(pq[1], pq[2]) = 5
              /\ CellNow(pq[1]) = color
              /\ CellNow(pq[2]) = color]_vars

\* a placeBarrier between two pegs of the mover at squared distance 8 was refused
C5_Witness ==
    /\ last.op = "placeBarrier"
    /\ last.color \in {R, B}
    /\ ret = FALSE
    /\ Dist2(last.peg1, last.peg2) = 8
    /\ CellNow(last.peg1) = last.color
    /\ CellNow(last.peg2) = last.color

\* C6: a mutating operation that returns false leaves the occupancy map and
\* both barrier arrays exactly as they were.
C6_FailureChangesNothing ==
    [][ret' = FALSE =>
          /\ pegState' = pegState
          /\ redBarrierState' = redBarrierState
          /\ blackBarrierState' = blackBarrierState]_vars

\* a removePeg failed on a cell whose peg, of another color than the one
\* named, had a barrier attached
C6_Witness ==
    /\ last.op = "removePeg"
    /\ ret = FALSE
    /\ CellNow(last.peg1) \in {R, B} \ {last.color}
    /\ \E i \in 1..Len(AllBarriers) :
          last.peg1 \in {AllBarriers[i][1], AllBarriers[i][2]}

\* the barriers of s that do not end at peg
NotAt(s, peg) == SelectSeq(s, LAMBDA b : b[1] # peg /\ b[2] # peg)

\* C7: removePeg(peg, color), color Red or Black, returns true exactly when
\* the cell holds color's peg; on success the cell becomes None, color's
\* barriers that end at peg are removed and its other barriers stay, the
\* other player's barriers stay, getAdjacentPegs of the emptied cell is the
\* empty list and no peg has the emptied cell among its adjacent pegs.
C7_RemovePegCascades ==
    [][\A peg \in Cells, color \in {R, B} :
          last' = Call("removePeg", peg, peg, color) =>
              /\ ret' = (CellNow(peg) = color)
              /\ ret' = TRUE =>
                    /\ getPeg(pegState', asTuple(peg)) = X
                    /\ redBarrierState' =
                          (IF color = R THEN NotAt(redBarrierState, peg) ELSE redBarrierState)
                    /\ blackBarrierState' =
                          (IF color = B THEN NotAt(blackBarrierState, peg) ELSE blackBarrierState)
                    /\ getAdjacentPegs(pegState', redBarrierState', blackBarrierState', peg) = <<>>
                    /\ \A q \in Cells :
                          ~includes(getAdjacentPegs(pegState', redBarrierState',
                                                    blackBarrierState', q), peg)]_vars

\* a removePeg took away one of two barriers with its peg and left the other
C7_Witness ==
    /\ last.op = "removePeg"
    /\ last.color \in {R, B}
    /\ ret = TRUE
    /\ Len(PrevBarriers) = 2
    /\ Len(AllBarriers) = 1
    /\ CellNow(last.peg1) = X

\* C8: after a successful placeBarrier(a, b, color), color Red or Black,
\* removeBarrier with the same endpoints in either order and the same color
\* returns true and leaves both barrier arrays as they were before the
\* placeBarrier; neither call changes the occupancy.
C8_PlaceThenRemoveBarrier ==
    [][/\ last'.op \in {"placeBarrier", "removeBarrier"} => pegState' = pegState
       /\ \A pq \in Pairs, color \in {R, B} :
             (/\ last \in {Call("placeBarrier", pq[1], pq[2], color),
                           Call("placeBarrier", pq[2], pq[1], color)}
              /\ ret = TRUE
              /\ last' = Call("removeBarrier", pq[1], pq[2], color))
             => /\ ret' = TRUE
                /\ redBarrierState' = prev.red
                /\ blackBarrierState' = prev.black]_vars

\* a removeBarrier, its endpoints given larger first, took away the barrier
\* placed last, from an array that held another barrier before it
C8_Witness ==
    /\ last.op = "removeBarrier"
    /\ last.color \in {R, B}
    /\ ret = TRUE
    /\ gt(last.peg1, last.peg2)
    /\ LET before == IF last.color = R THEN prev.red ELSE prev.black
       IN  /\ Len(before) = 2
           /\ before[2] = <<last.peg2, last.peg1>>
           /\ BarriersOf(last.color) = <<before[1]>>

\* C9: no Red peg is on a cell with x in {1,24} and no Black peg on a cell
\* with y in {1,24}.
C9_HomeLinesKept ==
    \A i \in 1..24 :
        /\ getPeg(pegState, <<1, i>>) # R
        /\ getPeg(pegState, <<24, i>>) # R
        /\ getPeg(pegState, <<i, 1>>) # B
        /\ getPeg(pegState, <<i, 24>>) # B

\* Black's placePeg on an empty cell of the row y = 1 was refused, while
\* Black holds a peg on the line x = 1, which is closed to Red only
C9_Witness ==
    /\ last.op = "placePeg"
    /\ last.color = B
    /\ ret = FALSE
    /\ last.peg1.y = 1
    /\ CellNow(last.peg1) = X
    /\ \E peg \in Cells : CellNow(peg) = B /\ peg.x = 1

\* the two pegs of a barrier, as a set
Ends(b) == {b[1], b[2]}

NoRepeat(s) == \A i, j \in 1..Len(s) : i # j => s[i] # s[j]

\* C10: the two barrier arrays together hold no barrier twice, in the same or
\* in reversed endpoint order: a placeBarrier on a pair of pegs that a barrier
\* already joins returns false, and getAdjacentPegs never lists a peg twice.
C10_NoDuplicateBarrier ==
    /\ \A i, j \in 1..Len(AllBarriers) : i # j => Ends(AllBarriers[i]) # Ends(AllBarriers[j])
    /\ (/\ last.op = "placeBarrier"
        /\ \E i \in 1..Len(PrevBarriers) : Ends(PrevBarriers[i]) = {last.peg1, last.peg2})
       => (ret = FALSE /\ AllBarriers = PrevBarriers)
    /\ \A peg \in Cells :
          NoRepeat(getAdjacentPegs(pegState, redBarrierState, blackBarrierState, peg))

\* a placeBarrier on a barrier that exists, its endpoints in the order
\* opposite to the stored one, was refused
C10_Witness ==
    /\ last.op = "placeBarrier"
    /\ ret = FALSE
    /\ includes(AllBarriers, <<last.peg2, last.peg1>>)

\* the segment a-b and the barrier c lie on one line and share an endpoint
TouchOnALine(a, b, c) ==
    /\ Orient(a, b, c[1]) = 0
    /\ Orient(a, b, c[2]) = 0
    /\ Cardinality(Ends(c) \cap {a, b}) = 1

\* C11: placeBarrier(a, b, color), color Red or Black, with a and b at squared
\* distance 5 and both holding color's peg (placeBarrier leaves the occupancy
\* as it was), returns true when no existing barrier joins a and b and none
\* properly crosses a-b: a barrier that shares an endpoint with a-b, or is
\* parallel to it, does not make it fail.
C11_TouchingOrParallelAccepted ==
    (/\ last.op = "placeBarrier"
     /\ last.color \in {R, B}
     /\ Dist2(last.peg1, last.peg2) = 5
     /\ CellNow(last.peg1) = last.color
     /\ CellNow(last.peg2) = last.color
     /\ \A i \in 1..Len(PrevBarriers) :
           /\ Ends(PrevBarriers[i]) # {last.peg1, last.peg2}
           /\ ~ProperlyCross(last.peg1, last.peg2, PrevBarriers[i][1], PrevBarriers[i][2]))
    => ret = TRUE

\* a barrier was placed in line with the existing one, from one of its ends
C11_Witness ==
    /\ last.op = "placeBarrier"
    /\ ret = TRUE
    /\ Len(PrevBarriers) = 1
    /\ Len(AllBarriers) = 2
    /\ TouchOnALine(last.peg1, last.peg2, PrevBarriers[1])

\* the keys of the 24 x 24 cells
GridKeys == {_stringifyPegTuple(<<i, j>>) : i \in 1..24, j \in 1..24}

\* C12: the Board just constructed holds None in each of the 24 x 24 cells,
\* and after any calls every cell of the grid holds Red, Black or None and
\* the map has no entry besides those 576.
C12_EveryCellHasOnePlayer ==
    /\ DOMAIN pegState = GridKeys
    /\ \A k \in GridKeys : pegState[k] \in {R, B, X}
    /\ last.op = "new" => \A i, j \in 1..24 : getPeg(pegState, <<i, j>>) = X

\* a placePeg on a coordinate outside the grid was refused, on a board that
\* holds a Red and a Black peg
C12_Witness ==
    /\ last.op = "placePeg"
    /\ last.peg1 \in OffGrid
    /\ last.color \in {R, B}
    /\ ret = FALSE
    /\ \E p, q \in Cells : CellNow(p) = R /\ CellNow(q) = B

LexBefore(p, q) == (p.x < q.x) \/ (p.x = q.x /\ p.y < q.y)

\* C14: every stored barrier has its endpoints at squared distance 5 and the
\* lexically smaller endpoint (by x, then y) first; the barrier a successful
\* placeBarrier(a, b, color) appended joins a and b and is stored that way,
\* in whichever order a and b were passed.
C14_BarriersCanonical ==
    /\ \A i \in 1..Len(AllBarriers) :
          /\ Dist2(AllBarriers[i][1], AllBarriers[i][2]) = 5
          /\ LexBefore(AllBarriers[i][1], AllBarriers[i][2])
    /\ (last.op = "placeBarrier" /\ ret = TRUE) =>
          LET mine == BarriersOf(last.color)
          IN  /\ Len(mine) > 0
              /\ Ends(mine[Len(mine)]) = {last.peg1, last.peg2}

\* a placeBarrier given the larger endpoint first succeeded
C14_Witness ==
    /\ last.op = "placeBarrier"
    /\ ret = TRUE
    /\ LexBefore(last.peg2, last.peg1)
    /\ BarriersOf(last.color)[Len(BarriersOf(last.color))] = <<last.peg2, last.peg1>>

\* the sequence s without its i-th element
Without(s, i) == [j \in 1..(Len(s) - 1) |-> IF j < i THEN s[j] ELSE s[j + 1]]

\* the occupancy after the step differs from the one before at most in the cell of peg
OnlyCellChanged(peg) ==
    LET k == _stringifyPegTuple(asTuple(peg))
    IN  /\ DOMAIN pegState' = DOMAIN pegState
        /\ \A j \in DOMAIN pegState : j # k => pegState'[j] = pegState[j]

\* C15: a mutator called with color Red or Black that returns true changes
\* only its own footprint.  placePeg: the target cell, which becomes color,
\* and no barrier array.  placeBarrier: one barrier joining the two pegs is
\* appended to color's array; no cell and not the other array.
\* removeBarrier: one barrier joining the two pegs leaves color's array, the
\* others keep their order; no cell and not the other array.  removePeg: no
\* cell but the target and not the other array.
C15_OwnFootprintOnly ==
    [][(last'.color \in {R, B} /\ ret' = TRUE /\ last'.op # "new") =>
          LET color  == last'.color
              mine   == IF color = R THEN redBarrierState ELSE blackBarrierState
              mine2  == IF color = R THEN redBarrierState' ELSE blackBarrierState'
              other  == IF color = R THEN blackBarrierState ELSE redBarrierState
              other2 == IF color = R THEN blackBarrierState' ELSE redBarrierState'
          IN  /\ other2 = other
              /\ last'.op = "placePeg" =>
                    /\ OnlyCellChanged(last'.peg1)
                    /\ getPeg(pegState', asTuple(last'.peg1)) = color
                    /\ mine2 = mine
              /\ last'.op = "placeBarrier" =>
                    /\ pegState' = pegState
                    /\ Len(mine2) = Len(mine) + 1
                    /\ SubSeq(mine2, 1, Len(mine)) = mine
                    /\ Ends(mine2[Len(mine2)]) = {last'.peg1, last'.peg2}
              /\ last'.op = "removeBarrier" =>
                    /\ pegState' = pegState
                    /\ \E i \in 1..Len(mine) :
                          /\ Ends(mine[i]) = {last'.peg1, last'.peg2}
                          /\ mine2 = Without(mine, i)
              /\ last'.op = "removePeg" => OnlyCellChanged(last'.peg1)]_vars

\* a removeBarrier took the first of two barriers out of color's array and
\* left the second
C15_Witness ==
    /\ last.op = "removeBarrier"
    /\ last.color \in {R, B}
    /\ ret = TRUE
    /\ LET before == IF last.color = R THEN prev.red ELSE prev.black
       IN  /\ Len(before) = 2
           /\ Ends(before[1]) = {last.peg1, last.peg2}
           /\ BarriersOf(last.color) = <<before[2]>>

\* C16: for a proposed segment and an existing barrier, both knight moves
\* between grid points, the code's decision (equal slopes: conflict only for
\* the same pair of endpoints; otherwise conflict when the lines' intersection
\* point is strictly between the endpoints of both segments on both axes) is
\* the decision of the integer test: the segments properly cross by the
\* orientation products, or join the same two pegs; and placeBarrier, called
\* by the owner of both endpoints, returns false exactly in that case.
C16_SlopeTestIsOrientationTest ==
    (last.op = "placeBarrier" /\ Len(PrevBarriers) = 1) =>
        LET peg3 == PrevBarriers[1][1]
            peg4 == PrevBarriers[1][2]
            byOrientation ==
                \/ ProperlyCross(last.peg1, last.peg2, peg3, peg4)
                \/ {peg3, peg4} = {last.peg1, last.peg2}
        IN  /\ conflicts(last.peg1, last.peg2, peg3, peg4) = byOrientation
            /\ ret = ~byOrientation

\* Red's segment was refused because it properly crosses a barrier of Black
\* at right angles
C16_Witness ==
    /\ last.op = "placeBarrier"
    /\ last.color = R
    /\ ret = FALSE
    /\ Len(prev.black) = 1
    /\ ProperlyCross(last.peg1, last.peg2, prev.black[1][1], prev.black[1][2])
    /\ (last.peg2.x - last.peg1.x) * (prev.black[1][2].x - prev.black[1][1].x)
          + (last.peg2.y - last.peg1.y) * (prev.black[1][2].y - prev.black[1][1].y) = 0

\* C17: placePeg, placeBarrier, removePeg and removeBarrier called with color
\* None leave the occupancy and both barrier arrays as they were.  The code
\* does not keep this: removeBarrier takes every color but Red for Black, so
\* removeBarrier(a, b, None) removes Black's barrier between a and b.
C17_NoneChangesNothing ==
    [][(last'.color = X /\ last'.op # "new") =>
          /\ pegState' = pegState
          /\ redBarrierState' = redBarrierState
          /\ blackBarrierState' = blackBarrierState]_vars

RECURSIVE FirstInFirstOut(_, _, _)
\* the traversal of gameWon with the work list taken from its front: the
\* keys reached from the keys of queue, in the order they are reached
FirstInFirstOut(player, queue, reached) ==
    IF Len(queue) = 0 THEN reached
    ELSE LET pegStr == queue[1]
             t      == _destringifyPegTuple(pegStr)
         IN  IF includes(reached, pegStr)
             THEN FirstInFirstOut(player, Tail(queue), reached)
             ELSE FirstInFirstOut(player,
                                  Tail(queue) \o pushKeys(getAdjacentPegs(pegState, redBarrierState,
                                                                          blackBarrierState,
                                                                          Peg(t[1], t[2]))),
                                  Append(reached, pegStr))

Range(s) == {s[i] : i \in 1..Len(s)}

\* the list connectedPegs that gameWon(player) builds on the board now
ConnectedPegs(player) ==
    connectedFrom(pegState, redBarrierState, blackBarrierState,
                  homeRowQueue(pegState, player), <<>>)

\* C18: on every board the traversal of gameWon(player) ends; each peg is
\* taken into connectedPegs, and so expanded, at most once, and every one of
\* them is a peg of player; the pegs it collects are those a path of
\* player's barriers joins to the first home row, the same set the
\* traversal collects with the work list taken from the other end.
C18_TraversalEndsOrderFree ==
    \A player \in {R, B} :
        LET connectedPegs == ConnectedPegs(player)
        IN  /\ NoRepeat(connectedPegs)
            /\ \A i \in 1..Len(connectedPegs) : pegState[connectedPegs[i]] = player
            /\ Range(connectedPegs) =
                  {_stringifyPegTuple(asTuple(peg)) :
                      peg \in ReachableFrom(player, FirstRowPegs(player))}
            /\ Range(connectedPegs) =
                  Range(FirstInFirstOut(player, homeRowQueue(pegState, player), <<>>))

\* the lane's rhombus (3,3)-(2,5)-(3,7)-(4,5) is closed for Red and the
\* traversal has gone round it
C18_Witness ==
    /\ \A k \in 2..5 : includes(redBarrierState, RedLinks[k])
    /\ includes(redBarrierState, RedLinks[1])
    /\ Len(ConnectedPegs(R)) >= 5

\* C19: in a game played through the page, while the game is not over
\* (gameState is not 5) neither Red nor Black has won on the Board, and when
\* it is over the winner is the player to move and has won on the Board.
C19_WonExactlyWhenOver ==
    /\ game.gameState # 5 =>
          /\ ~gameWon(pegState, redBarrierState, blackBarrierState, R)
          /\ ~gameWon(pegState, redBarrierState, blackBarrierState, B)
    /\ game.gameState = 5 =>
          /\ game.winner = game.currentPlayer
          /\ gameWon(pegState, redBarrierState, blackBarrierState, game.winner)

\* Black has won a game in which Red has barriers too
C19_Witness ==
    /\ game.gameState = 5
    /\ game.winner = B
    /\ redBarrierState # <<>>
    /\ event.called = "placeBarrier"

\* a step into phase 2 from another phase is a successful placePeg by the
\* player to move, made in phase 1
EntersPhase2ByPlacePeg ==
    (game.gameState # 2 /\ game'.gameState = 2) =>
        /\ game.gameState = 1
        /\ event'.called = "placePeg"
        /\ event'.ret
        /\ game'.currentPlayer = game.currentPlayer
        /\ \E k \in DOMAIN pegState :
              /\ pegState[k] = X
              /\ pegState' = [pegState EXCEPT ![k] = game.currentPlayer]

\* C20 as stated: endTurn fires only in phase 2; phase 2 is entered only by
\* a successful placePeg of the player to move; from the peg that entered
\* phase 2 until endTurn the game is in none of the phases 1, 3 and 4; so
\* between two endTurn events exactly one peg is placed, every removal comes
\* before it and every barrier placement after it.
C20_OnePegBetweenEndTurns ==
    [][/\ ClickEndTurn => (game.gameState = 2 /\ event.pegs = 1)
       /\ EntersPhase2ByPlacePeg
       /\ (event.pegs >= 1 /\ ~ClickEndTurn) => game'.gameState \notin {1, 3, 4}
       /\ (event'.called = "placePeg" /\ event'.ret) => event.pegs = 0
       /\ event'.called \in {"removePeg", "removeBarrier"} => event.pegs = 0
       /\ event'.called = "placeBarrier" => event.pegs = 1]_vars

\* C20, amended: the same with a turn ended by endTurn or, once the game is
\* over, by initialize (the new-game button): from the peg that entered
\* phase 2 until endTurn or initialize the game is in none of the phases 1,
\* 3 and 4, and between two events that are endTurn or initialize, the
\* second an endTurn, exactly one peg is placed, every removal before it
\* and every barrier placement after it.
C20_OnePegPerTurn ==
    [][/\ ClickEndTurn => (game.gameState = 2 /\ event.pegsInGame = 1)
       /\ ClickNewGame => game.gameState = 5
       /\ EntersPhase2ByPlacePeg
       /\ (event.pegsInGame >= 1 /\ ~ClickEndTurn /\ ~ClickNewGame) => game'.gameState \notin {1, 3, 4}
       /\ (event'.called = "placePeg" /\ event'.ret) => event.pegsInGame = 0
       /\ event'.called \in {"removePeg", "removeBarrier"} => event.pegsInGame = 0
       /\ event'.called = "placeBarrier" => event.pegsInGame = 1]_vars

\* Black, whose turn began with an endTurn, has placed the peg of the turn
\* and then a barrier
C20_Witness ==
    /\ game.currentPlayer = B
    /\ game.gameState = 2
    /\ event.pegsInGame = 1
    /\ event.called = "placeBarrier"
    /\ event.ret
    /\ blackBarrierState # <<>>

\* the cells that hold a peg of color
PegsOf(ps, color) == {k \in DOMAIN ps : ps[k] = color}

\* the step leaves the pegs and the barriers of the opponent of the player
\* to move as they are
OpponentUntouched ==
    LET opponent == Other(game.currentPlayer)
    IN  /\ pegState' = pegState \/ PegsOf(pegState', opponent) = PegsOf(pegState, opponent)
        /\ IF opponent = R
           THEN redBarrierState' = redBarrierState
           ELSE blackBarrierState' = blackBarrierState

\* the Board mutation of the step, if any, is made with currentPlayer
CalledWithCurrentPlayer ==
    event'.called \in {"placePeg", "placeBarrier", "removePeg", "removeBarrier"} =>
        event'.color = game.currentPlayer

\* C21 as stated: every mouse event and every button click leaves the
\* opponent's pegs and barriers unchanged, every Board mutation of the Game
\* is made with currentPlayer as color, and currentPlayer changes only in
\* endTurn.
C21_OpponentUntouchedByEveryEvent ==
    [][/\ OpponentUntouched
       /\ CalledWithCurrentPlayer
       /\ game'.currentPlayer # game.currentPlayer => ClickEndTurn]_vars

\* C21, amended: the same of every mouse event and every button click but
\* the click on new-game, which is possible only when the game is over;
\* currentPlayer changes only in endTurn and in that click.
C21_OpponentUntouchedInGame ==
    [][/\ ClickNewGame => game.gameState = 5
       /\ ~ClickNewGame =>
             /\ OpponentUntouched
             /\ CalledWithCurrentPlayer
             /\ game'.currentPlayer # game.currentPlayer => ClickEndTurn]_vars

\* the player to move, with a peg on the board, has tried to remove a peg
\* of the opponent
C21_Witness ==
    /\ game.gameState = 3
    /\ event.called = "removePeg"
    /\ ~event.ret
    /\ OnBoard(game.currentPlayer) # {}
    /\ OnBoard(Other(game.currentPlayer)) # {}

\* C22: when the game is over (gameState is 5), a mouse event or a click on
\* an enabled button other than new-game changes neither the Board nor
\* currentPlayer, winner or gameState; the click on new-game leaves an empty
\* Board, currentPlayer Red, winner null and gameState 1.
C22_GameOverAbsorbing ==
    [][game.gameState = 5 =>
          IF ClickNewGame
          THEN /\ pegState' = EmptyPegState
               /\ redBarrierState' = <<>>
               /\ blackBarrierState' = <<>>
               /\ game'.currentPlayer = R
               /\ game'.winner = nullPlayer
               /\ game'.gameState = 1
          ELSE /\ UNCHANGED <<pegState, redBarrierState, blackBarrierState>>
               /\ game'.currentPlayer = game.currentPlayer
               /\ game'.winner = game.winner
               /\ game'.gameState = 5]_vars

\* the game is over and an event that calls no Board mutator has been
\* handled since the barrier that won it
C22_Witness ==
    /\ game.gameState = 5
    /\ event.called = "none"
    /\ game.winner \in {R, B}
    /\ gameWon(pegState, redBarrierState, blackBarrierState, game.winner)

\* C23: a drag in progress (currentEndpointPeg not null) exists only while
\* gameState is 2 or 4, and the peg it names holds a peg of the player to
\* move.
C23_DragOnlyInPhases2And4 ==
    game.currentEndpointPeg # null =>
        /\ game.gameState \in {2, 4}
        /\ getPeg(pegState, asTuple(game.currentEndpointPeg)) = game.currentPlayer

\* x or y outside 1..GridSize
OutOfRange(peg) == peg.x \notin 1..GridSize \/ peg.y \notin 1..GridSize

\* C24: placePeg, placeBarrier, removePeg and removeBarrier, called for Red
\* or Black with a peg whose x or y is outside 1..24, return false and leave
\* pegState and both barrier arrays as they are.
C24_OutOfRangeRejected ==
    [][(/\ last'.op \in {"placePeg", "placeBarrier", "removePeg", "removeBarrier"}
        /\ last'.color \in {R, B}
        /\ OutOfRange(last'.peg1) \/ OutOfRange(last'.peg2))
       => /\ ret' = FALSE
          /\ UNCHANGED <<pegState, redBarrierState, blackBarrierState>>]_vars

\* placeBarrier was called with one end off the grid and the other, a
\* knight's move away, a peg of the caller's color
C24_Witness ==
    /\ last.op = "placeBarrier"
    /\ last.color \in {R, B}
    /\ OutOfRange(last.peg1)
    /\ ~OutOfRange(last.peg2)
    /\ Dist2(last.peg1, last.peg2) = 5
    /\ getPeg(pegState, asTuple(last.peg2)) = last.color
    /\ redBarrierState # <<>>
    /\ ret = FALSE

====
